---- MODULE Spec2Model ----
(***************************************************************************)
(* A model of metamath-knife's database orchestrator (src/database.rs):    *)
(* the Database container with its lazily computed, cached pass results    *)
(* held in reference-counted handles (Arc), and the Executor / Promise     *)
(* work queue.                                                             *)
(***************************************************************************)
EXTENDS Integers, Sequences, FiniteSets, TLC

(***************************************************************************)
(* Bounds of the model.                                                    *)
(***************************************************************************)
\* Heap cells per result type (see Handles).
CellsPerType == 3
\* Distinct inputs (start, text) that parse may be given.  The segment set of
\* a new Database (no segment) differs from that of every input, so that with
\* one input there is already a parse that changes the segment set and one
\* that does not.
MaxInput == 1
\* Largest Options.jobs an Executor is built with.
MaxJobs == 2
\* Calls of exec on one Executor.
MaxTasks == 2
\* Largest estimate given to exec.
MaxEst == 2
\* Jobs of the priority scenario.
ScenarioJobs == 10
\* The deepest heading level, and the headings of a database.
MaxLevel == 3
MaxHeadings == 5

VARIABLES
    \* ---- Database (src/database.rs:352-368) ----
    options, segments, prev_nameset, nameset, prev_scopes, scopes,
    prev_verify, verify, outline, grammar, stmt_parse,
    \* ---- the heap of Arc allocations and the handle the caller observed ----
    heap, obs,
    \* ---- observation of the last Database call ----
    call,
    \* ---- the fields of a clone of the Database, and what they held when
    \*      the clone was made ----
    clone,
    \* ---- Executor (src/database.rs:182-188) and its worker threads ----
    concurrency, threads, qlock, qpoisoned, queue,
    \* ---- the tasks given to exec: result slot, promise, waiter ----
    tasks,
    \* ---- observation of the executor: order of completion, whether a
    \*      call of exec panicked ----
    done, execfailed,
    \* ---- promises built by Promise::map and Promise::join ----
    maps, join,
    \* ---- the outline build_outline is building (src/outline.rs) ----
    building,
    \* ---- the fields of a Database being dropped that were released ----
    released

dbVars == <<options, segments, prev_nameset, nameset, prev_scopes, scopes,
            prev_verify, verify, outline, grammar, stmt_parse,
            heap, obs, call, clone>>

exVars == <<concurrency, threads, qlock, qpoisoned, queue, tasks,
            done, execfailed>>

pmVars == <<maps, join>>

olVars == <<building, released>>

vars == <<dbVars, exVars, pmVars, olVars>>

(***************************************************************************)
(* Executor and Promise (src/database.rs:159-335).                         *)
(*                                                                         *)
(* Threads: the workers spawned by Executor::new, the thread that calls    *)
(* exec, and for each promise the thread that calls wait on it.            *)
(***************************************************************************)
NoTask == 0
NoThread == 0
NoValue == 0 - 1

\* The value the task of the t-th exec call returns when it does not fail.
TaskValue(t) == 10 + t

Concurrencies == 0..MaxJobs
Estimates == 1..MaxEst

\* A faulty queue_work, which queues every job.
RunsInline_Never(c) == FALSE

\* queue_work: `if exec.concurrency <= 1`
RunsInline(c) == c <= 1

\* A faulty order on jobs, the lowest estimate greatest.
JobLe_Reversed(a, b) == tasks[a].est >= tasks[b].est

\* impl Ord for Job: jobs compare by their estimate alone.
JobLe(a, b) == tasks[a].est <= tasks[b].est

\* BinaryHeap::pop: a greatest job of the heap (any of them when several
\* compare equal).
pop(q) == {t \in q : \A u \in q : JobLe(u, t)}

\* A faulty notify_one, which wakes nobody.
notify_one_Lost(waiting) == {NoThread}

\* Condvar::notify_one: the threads that can be woken, of those blocked in
\* wait on the condition variable (none when nobody waits).
notify_one(waiting) == IF waiting = {} THEN {NoThread} ELSE waiting

\* A faulty job closure, which lets the panic of the task through.
catch_unwind_Propagate(o) == [panicked |-> o.panicked, res |-> "ok", val |-> o.val]

\* panic::catch_unwind(taskf) on the outcome o of the task body: the panic is
\* turned into an Err value.
catch_unwind(o) ==
    [panicked |-> FALSE,
     res |-> IF o.panicked THEN "err" ELSE "ok",
     val |-> IF o.panicked THEN NoValue ELSE o.val]

\* A faulty promise closure, which does not wait for the result.
SlotReady_Always(slot) == TRUE

\* Promise closure: `while g.is_none()`
SlotReady(slot) == slot # "none"

\* Executor::exec, before queue_work: parts = (Mutex::new(None), Condvar),
\* tasko = Some(task); the promise is not waited on yet.
NewTask(e, f) ==
    [est |-> e, fails |-> f,
     slot |-> "none", sval |-> NoValue,
     slock |-> "free", poisoned |-> FALSE,
     tasko |-> TRUE, runs |-> 0, writes |-> 0, by |-> NoThread,
     wpc |-> "held", slept |-> FALSE, got |-> NoValue]

\* The job closure of exec once it holds the lock of the result slot, run by
\* thread w: take the task, run it under catch_unwind, store the outcome,
\* notify the waiter; the guard is dropped at the end, or by the unwinding
\* when the closure panics (which poisons the lock).
JobRun(tk, t, w) ==
    IF ~tk.tasko
    THEN [task |-> [tk EXCEPT !.slock = "free", !.poisoned = TRUE],
          ran |-> FALSE, panicked |-> TRUE]
    ELSE LET c == catch_unwind([panicked |-> tk.fails, val |-> TaskValue(t)])
             woken == CHOOSE x \in notify_one(IF tk.wpc = "cvwait" THEN {t} ELSE {}) : TRUE
         IN  IF c.panicked
             THEN [task |-> [tk EXCEPT !.tasko = FALSE, !.runs = @ + 1, !.by = w,
                                       !.slock = "free", !.poisoned = TRUE],
                   ran |-> TRUE, panicked |-> TRUE]
             ELSE [task |-> [tk EXCEPT !.tasko = FALSE, !.runs = @ + 1, !.by = w,
                                       !.slot = c.res, !.sval = c.val,
                                       !.writes = @ + 1,
                                       !.wpc = IF woken = t THEN "lock" ELSE @,
                                       !.slock = "free"],
                   ran |-> TRUE, panicked |-> FALSE]

\* A faulty Executor::new, which spawns one thread too few.
ExecutorNew_OneFewer(c) ==
    /\ concurrency = c
    /\ threads = [w \in (IF c > 1 THEN 1..(c - 1) ELSE {}) |-> [pc |-> "lock", job |-> NoTask]]
    /\ qlock = NoThread
    /\ qpoisoned = FALSE
    /\ queue = {}
    /\ tasks = <<>>
    /\ done = <<>>
    /\ execfailed = FALSE

\* Executor::new(c): an empty heap, and c worker threads when c > 1, each at
\* the top of its loop.
ExecutorNew(c) ==
    /\ concurrency = c
    /\ threads = [w \in (IF c > 1 THEN 1..c ELSE {}) |-> [pc |-> "lock", job |-> NoTask]]
    /\ qlock = NoThread
    /\ qpoisoned = FALSE
    /\ queue = {}
    /\ tasks = <<>>
    /\ done = <<>>
    /\ execfailed = FALSE

\* exec(e, task) called by the submitting thread, with a task that fails or
\* not (f).  Inline: the job closure runs before exec returns.  Pool: the job
\* is pushed under the queue lock and one waiting worker is notified.
Exec(e, f) ==
    /\ ~execfailed
    /\ LET t == Len(tasks) + 1
       IN  IF RunsInline(concurrency)
           THEN LET r == JobRun([NewTask(e, f) EXCEPT !.slock = "job"], t, NoThread)
                IN  /\ tasks' = Append(tasks, r.task)
                    /\ done' = IF r.ran THEN Append(done, t) ELSE done
                    /\ execfailed' = r.panicked
                    /\ UNCHANGED <<threads, qlock, qpoisoned, queue>>
           ELSE /\ qlock = NoThread
                /\ tasks' = Append(tasks, NewTask(e, f))
                /\ IF qpoisoned
                   THEN /\ execfailed' = TRUE
                        /\ UNCHANGED <<threads, queue>>
                   ELSE /\ queue' = queue \cup {t}
                        /\ \E w \in notify_one({v \in DOMAIN threads : threads[v].pc = "wait"}) :
                              threads' = [v \in DOMAIN threads |->
                                            IF v = w THEN [threads[v] EXCEPT !.pc = "lock"]
                                            ELSE threads[v]]
                        /\ UNCHANGED execfailed
                /\ UNCHANGED <<qlock, qpoisoned, done>>
    /\ UNCHANGED <<dbVars, pmVars, olVars, concurrency>>

\* worker: mutex.lock().unwrap(), at the top of the loop or when cv.wait
\* takes the lock again after a wake-up
WLock(w) ==
    /\ w \in DOMAIN threads
    /\ threads[w].pc = "lock"
    /\ qlock = NoThread
    /\ IF qpoisoned
       THEN threads' = [threads EXCEPT ![w].pc = "dead"] /\ UNCHANGED qlock
       ELSE threads' = [threads EXCEPT ![w].pc = "check"] /\ qlock' = w
    /\ UNCHANGED <<dbVars, pmVars, olVars, concurrency, qpoisoned, queue, tasks, done, execfailed>>

\* worker, holding the queue lock: `while mutexg.is_empty() { cv.wait }`, then
\* `mutexg.pop().unwrap()`; the guard is dropped at the end of the block.
WCheck(w) ==
    /\ w \in DOMAIN threads
    /\ threads[w].pc = "check"
    /\ qlock' = NoThread
    /\ IF queue = {}
       THEN /\ threads' = [threads EXCEPT ![w].pc = "wait"]
            /\ UNCHANGED queue
       ELSE \E t \in pop(queue) :
            /\ queue' = queue \ {t}
            /\ threads' = [threads EXCEPT ![w] = [pc |-> "job", job |-> t]]
    /\ UNCHANGED <<dbVars, pmVars, olVars, concurrency, qpoisoned, tasks, done, execfailed>>

\* worker: cv.wait returns without a notification
WSpurious(w) ==
    /\ w \in DOMAIN threads
    /\ threads[w].pc = "wait"
    /\ threads' = [threads EXCEPT ![w].pc = "lock"]
    /\ UNCHANGED <<dbVars, pmVars, olVars, concurrency, qlock, qpoisoned, queue, tasks, done, execfailed>>

\* worker, `(task.1)()`: the job closure takes the lock of the result slot
JLock(w) ==
    /\ w \in DOMAIN threads
    /\ threads[w].pc = "job"
    /\ LET t == threads[w].job
       IN  /\ tasks[t].slock = "free"
           /\ IF tasks[t].poisoned
              THEN /\ threads' = [threads EXCEPT ![w] = [pc |-> "dead", job |-> NoTask]]
                   /\ UNCHANGED tasks
              ELSE /\ threads' = [threads EXCEPT ![w].pc = "body"]
                   /\ tasks' = [tasks EXCEPT ![t].slock = "job"]
    /\ UNCHANGED <<dbVars, pmVars, olVars, concurrency, qlock, qpoisoned, queue, done, execfailed>>

\* worker: the rest of the job closure, then back to the top of the loop (a
\* panic that leaves the closure ends the thread)
JBody(w) ==
    /\ w \in DOMAIN threads
    /\ threads[w].pc = "body"
    /\ LET t == threads[w].job
           r == JobRun(tasks[t], t, w)
       IN  /\ tasks' = [tasks EXCEPT ![t] = r.task]
           /\ done' = IF r.ran THEN Append(done, t) ELSE done
           /\ threads' = [threads EXCEPT ![w] = [pc |-> IF r.panicked THEN "dead" ELSE "lock",
                                                  job |-> NoTask]]
    /\ UNCHANGED <<dbVars, pmVars, olVars, concurrency, qlock, qpoisoned, queue, execfailed>>

\* Promise::wait called on the promise of task t
WaitCall(t) ==
    /\ t \in DOMAIN tasks
    /\ tasks[t].wpc = "held"
    /\ tasks' = [tasks EXCEPT ![t].wpc = "lock"]
    /\ UNCHANGED <<dbVars, pmVars, olVars, concurrency, threads, qlock, qpoisoned, queue, done, execfailed>>

\* promise closure: parts.0.lock().unwrap(), on entry or when the wait on the
\* condition variable takes the lock again
WaitLock(t) ==
    /\ t \in DOMAIN tasks
    /\ tasks[t].wpc = "lock"
    /\ tasks[t].slock = "free"
    /\ tasks' = IF tasks[t].poisoned
                THEN [tasks EXCEPT ![t].wpc = "raised"]
                ELSE [tasks EXCEPT ![t].wpc = "check", ![t].slock = "waiter"]
    /\ UNCHANGED <<dbVars, pmVars, olVars, concurrency, threads, qlock, qpoisoned, queue, done, execfailed>>

\* promise closure, holding the lock: `while g.is_none() { wait }`, then
\* `g.take().unwrap().unwrap()`: the value, or a panic raised while the guard
\* is held (which poisons the lock).
WaitCheck(t) ==
    /\ t \in DOMAIN tasks
    /\ tasks[t].wpc = "check"
    /\ tasks' = IF ~SlotReady(tasks[t].slot)
                THEN [tasks EXCEPT ![t].wpc = "cvwait", ![t].slept = TRUE,
                                   ![t].slock = "free"]
                ELSE IF tasks[t].slot = "ok"
                THEN [tasks EXCEPT ![t].wpc = "ret", ![t].got = tasks[t].sval,
                                   ![t].slot = "none", ![t].sval = NoValue,
                                   ![t].slock = "free"]
                ELSE [tasks EXCEPT ![t].wpc = "raised",
                                   ![t].slot = "none", ![t].sval = NoValue,
                                   ![t].slock = "free", ![t].poisoned = TRUE]
    /\ UNCHANGED <<dbVars, pmVars, olVars, concurrency, threads, qlock, qpoisoned, queue, done, execfailed>>

\* waiter: the wait on the condition variable returns without a notification
WaitSpurious(t) ==
    /\ t \in DOMAIN tasks
    /\ tasks[t].wpc = "cvwait"
    /\ tasks' = [tasks EXCEPT ![t].wpc = "lock"]
    /\ UNCHANGED <<dbVars, pmVars, olVars, concurrency, threads, qlock, qpoisoned, queue, done, execfailed>>

Workers == 1..MaxJobs
TaskIds == 1..MaxTasks

(***************************************************************************)
(* Promise::new_once, Promise::map and Promise::join                       *)
(* (src/database.rs:303-334).                                              *)
(*                                                                         *)
(* maps[t] is the promise made by map from the promise of task t; join is  *)
(* the promise made by join from a vector of promises.  Both are closures  *)
(* given to new_once: they run when wait is called, on the thread that     *)
(* calls it, and they start by waiting on the promises they hold.          *)
(***************************************************************************)
\* The function given to map.
MapFun(v) == v + 100

\* The promise of task t before map is called on it.
NoMap == [mapped |-> FALSE, st |-> "pending", fruns |-> 0, fat |-> "never",
          mval |-> NoValue]

\* No promise vector was joined yet.
NoJoin == [st |-> "none", vec |-> <<>>, idx |-> 0, res |-> <<>>, err |-> NoTask]

\* No promise was made by map or join.
NoPromises ==
    /\ maps = [t \in TaskIds |-> NoMap]
    /\ join = NoJoin

\* A faulty map: the function is applied when map is called.
MapCall_Eager(m) ==
    [m EXCEPT !.mapped = TRUE, !.fruns = @ + 1, !.fat = "map",
              !.mval = MapFun(NoValue)]

\* map(p, fun): Promise::new_once(move || fun(self.wait())); the closure is
\* stored, nothing runs.
MapCall(m) ==
    [m EXCEPT !.mapped = TRUE]

\* A faulty closure of map: the function is applied to a failed wait too.
MapReturn_AppliesOnFailure(m, inner) ==
    [m EXCEPT !.st = IF inner.wpc = "raised" THEN "raised" ELSE "ret",
              !.fruns = @ + 1, !.fat = "wait", !.mval = MapFun(inner.got)]

\* The closure of map once self.wait() is over: a panic of the wait unwinds
\* through the closure, a value is given to fun.
MapReturn(m, inner) ==
    IF inner.wpc = "raised"
    THEN [m EXCEPT !.st = "raised"]
    ELSE [m EXCEPT !.st = "ret", !.fruns = @ + 1, !.fat = "wait",
                   !.mval = MapFun(inner.got)]

\* What wait on the promise of task t (mapped or not) came to.
Outcome(t) ==
    IF maps[t].mapped
    THEN [st |-> maps[t].st, val |-> maps[t].mval]
    ELSE [st |-> IF tasks[t].wpc \in {"ret", "raised"} THEN tasks[t].wpc ELSE "pending",
          val |-> tasks[t].got]

\* A faulty closure of join: the results are collected last first.
JoinCollected_Reversed(j, o) ==
    IF o.st = "raised"
    THEN [j EXCEPT !.st = "raised", !.err = j.vec[j.idx]]
    ELSE [j EXCEPT !.res = <<o.val>> \o @, !.idx = @ + 1,
                   !.st = IF j.idx + 1 > Len(j.vec) THEN "ret" ELSE @]

\* The closure of join once x.wait() is over for the promise at j.idx:
\* promises.into_iter().map(|x| x.wait()).collect(); a panic of the wait
\* unwinds through the closure, a value is collected and the iteration goes
\* on with the next promise.
JoinCollected(j, o) ==
    IF o.st = "raised"
    THEN [j EXCEPT !.st = "raised", !.err = j.vec[j.idx]]
    ELSE [j EXCEPT !.res = Append(@, o.val), !.idx = @ + 1,
                   !.st = IF j.idx + 1 > Len(j.vec) THEN "ret" ELSE @]

\* The vectors of distinct promises among those of the set S.
Vectors(S) ==
    { v \in UNION { [1..n -> S] : n \in 0..Cardinality(S) } :
        \A i, k \in DOMAIN v : i # k => v[i] # v[k] }

\* The promises moved into the joined vector.
Joined == { join.vec[i] : i \in DOMAIN join.vec }

\* The promise of task t is still owned by the caller of exec or map.
Held(t) ==
    /\ t \in DOMAIN tasks
    /\ t \notin Joined
    /\ tasks[t].wpc = "held"

\* map called on the promise of task t
Map(t) ==
    /\ Held(t)
    /\ ~maps[t].mapped
    /\ maps' = [maps EXCEPT ![t] = MapCall(@)]
    /\ UNCHANGED <<dbVars, exVars, olVars, join>>

\* join called on a vector of promises
Join(vec) ==
    /\ join.st = "none"
    /\ \A i \in DOMAIN vec : Held(vec[i])
    /\ join' = [NoJoin EXCEPT !.st = "held", !.vec = vec]
    /\ UNCHANGED <<dbVars, exVars, olVars, maps>>

\* Promise::wait called on the promise made by join: the closure starts the
\* iteration, which is over at once for an empty vector.
JoinWait ==
    /\ join.st = "held"
    /\ join' = [join EXCEPT !.idx = 1,
                            !.st = IF Len(join.vec) = 0 THEN "ret" ELSE "waiting"]
    /\ UNCHANGED <<dbVars, exVars, olVars, maps>>

\* The thread which may call wait on the promise of task t: the owner of a
\* promise that was not joined, the closure of join for the promise its
\* iteration has reached.
MayWait(t) ==
    \/ Held(t)
    \/ /\ join.st = "waiting"
       /\ join.vec[join.idx] = t

\* closure of map: self.wait() is over
MapWaitOver(t) ==
    /\ t \in DOMAIN tasks
    /\ maps[t].mapped
    /\ maps[t].st = "pending"
    /\ tasks[t].wpc \in {"ret", "raised"}
    /\ maps' = [maps EXCEPT ![t] = MapReturn(@, tasks[t])]
    /\ UNCHANGED <<dbVars, exVars, olVars, join>>

\* closure of join: x.wait() is over for the promise the iteration reached
JoinWaitOver ==
    /\ join.st = "waiting"
    /\ Outcome(join.vec[join.idx]).st # "pending"
    /\ join' = JoinCollected(join, Outcome(join.vec[join.idx]))
    /\ UNCHANGED <<dbVars, exVars, olVars, maps>>



(***************************************************************************)
(* The outline (src/outline.rs).                                           *)
(***************************************************************************)
\* HeadingLevel::Database, the level of the root; the levels of headings
\* are deeper, which is greater in the order of HeadingLevel.
Database == 0
HeadingLevels == Database..MaxLevel

\* OutlineNode::root_node
root_node == [level |-> Database, stmt_address |-> 0, children |-> <<>>]

\* OutlineNode::from_heading_def: the node of a heading of level l at address a
from_heading_def(l, a) == [level |-> l, stmt_address |-> a, children |-> <<>>]

\* A faulty add_child, which never goes under the last child.
add_child_AlwaysPush(self, child) ==
    IF ~(child.level > self.level) THEN [panicked |-> TRUE, node |-> self]
    ELSE [panicked |-> FALSE, node |-> [self EXCEPT !.children = Append(@, child)]]

\* A faulty add_child, which puts the child in front of the children.
RECURSIVE add_child_Front(_, _)
add_child_Front(self, child) ==
    IF ~(child.level > self.level) THEN [panicked |-> TRUE, node |-> self]
    ELSE IF self.children = <<>>
    THEN [panicked |-> FALSE, node |-> [self EXCEPT !.children = <<child>>]]
    ELSE LET n == Len(self.children)
             last_child == self.children[n]
         IN  IF child.level > last_child.level
             THEN LET r == add_child_Front(last_child, child)
                  IN  [panicked |-> r.panicked,
                       node |-> [self EXCEPT !.children[n] = r.node]]
             ELSE [panicked |-> FALSE,
                   node |-> [self EXCEPT !.children = <<child>> \o @]]

\* A faulty add_child, which goes under the last child when the last child
\* is the deeper one.
RECURSIVE add_child_Reversed(_, _)
add_child_Reversed(self, child) ==
    IF ~(child.level > self.level) THEN [panicked |-> TRUE, node |-> self]
    ELSE IF self.children = <<>>
    THEN [panicked |-> FALSE, node |-> [self EXCEPT !.children = <<child>>]]
    ELSE LET n == Len(self.children)
             last_child == self.children[n]
         IN  IF last_child.level > child.level
             THEN LET r == add_child_Reversed(last_child, child)
                  IN  [panicked |-> r.panicked,
                       node |-> [self EXCEPT !.children[n] = r.node]]
             ELSE [panicked |-> FALSE,
                   node |-> [self EXCEPT !.children = Append(@, child)]]

\* OutlineNode::add_child(&mut self, child): the node afterwards, or the
\* panic of assert!(child.level > self.level).
RECURSIVE add_child(_, _)
add_child(self, child) ==
    IF ~(child.level > self.level) THEN [panicked |-> TRUE, node |-> self]
    ELSE IF self.children = <<>>
    THEN [panicked |-> FALSE, node |-> [self EXCEPT !.children = <<child>>]]
    ELSE LET n == Len(self.children)
             last_child == self.children[n]
         IN  IF child.level > last_child.level
             THEN LET r == add_child(last_child, child)
                  IN  [panicked |-> r.panicked,
                       node |-> [self EXCEPT !.children[n] = r.node]]
             ELSE [panicked |-> FALSE,
                   node |-> [self EXCEPT !.children = Append(@, child)]]

\* The heading of a node.
HeadingOf(n) == [level |-> n.level, stmt_address |-> n.stmt_address]

\* The headings below node n in pre-order, from its i-th child on.
RECURSIVE PreOrder(_, _)
PreOrder(n, i) ==
    IF i > Len(n.children) THEN <<>>
    ELSE <<HeadingOf(n.children[i])>> \o PreOrder(n.children[i], 1)
             \o PreOrder(n, i + 1)

\* The nodes of the tree of root n.
RECURSIVE Nodes(_)
Nodes(n) == {n} \cup UNION { Nodes(n.children[i]) : i \in DOMAIN n.children }

\* No outline is being built, no Database being dropped.
NoOutline ==
    /\ building = [node |-> root_node, met |-> <<>>, panicked |-> FALSE]
    /\ released = <<>>

\* build_outline, one turn of its loops: the next heading of the segments,
\* of level l, is added to the root.
Heading(l) ==
    /\ ~building.panicked
    /\ Len(building.met) < MaxHeadings
    /\ LET child == from_heading_def(l, Len(building.met) + 1)
           r == add_child(building.node, child)
       IN  building' = [node |-> r.node,
                        met |-> Append(building.met, HeadingOf(child)),
                        panicked |-> r.panicked]
    /\ UNCHANGED <<dbVars, exVars, pmVars, released>>

(***************************************************************************)
(* Handles and contents.                                                   *)
(***************************************************************************)
\* Option::None for a slot of type Option<Arc<T>>.
NoneH == 0
\* "not applicable" for a field of a result's content
NA == 0 - 1
\* the content of a freed / never allocated heap cell
Free == [seg |-> 0 - 2, name |-> NA, scope |-> NA, gram |-> NA, torn |-> FALSE]
Inputs == 1..MaxInput
\* SegmentSet::new(): "an empty set of segments" is input 0
EmptyInput == 0

Passes == {"nameck", "scopeck", "verify", "outline", "grammar", "stmt_parse"}
NoPass == "none"

\* The Option<Arc<_>> fields of Database.
Slots == {"segments", "prev_nameset", "nameset", "prev_scopes", "scopes",
          "prev_verify", "verify", "outline", "grammar", "stmt_parse"}

\* The result types: Arc<SegmentSet>, Arc<Nameset>, Arc<ScopeResult>,
\* Arc<VerifyResult>, Arc<OutlineNode>, Arc<Grammar>, Arc<StmtParse>.
Types == <<"SegmentSet", "Nameset", "ScopeResult", "VerifyResult",
           "OutlineNode", "Grammar", "StmtParse">>

\* The type of the value each field holds.
SlotType(s) ==
    CASE s = "segments" -> 1
      [] s \in {"prev_nameset", "nameset"} -> 2
      [] s \in {"prev_scopes", "scopes"} -> 3
      [] s \in {"prev_verify", "verify"} -> 4
      [] s = "outline" -> 5
      [] s = "grammar" -> 6
      [] s = "stmt_parse" -> 7

\* The fields that hold a value of type t.
TypeSlots(t) ==
    CASE t = 1 -> <<"segments">>
      [] t = 2 -> <<"prev_nameset", "nameset">>
      [] t = 3 -> <<"prev_scopes", "scopes">>
      [] t = 4 -> <<"prev_verify", "verify">>
      [] t = 5 -> <<"outline">>
      [] t = 6 -> <<"grammar">>
      [] t = 7 -> <<"stmt_parse">>

\* A handle is the address of a live Arc allocation.  Each type has cells of
\* its own, as many as allocations of the type can be alive at once (two
\* fields of the Database and the one the caller kept), so that Arc::new never
\* fails; the cell of a dropped allocation is used again.
HeapCells == Len(Types) * CellsPerType
Handles == 1..HeapCells
CellsOf(t) == ((t - 1) * CellsPerType + 1)..(t * CellsPerType)

\* The current-result slot of each pass.
CurSlot(p) ==
    CASE p = "nameck" -> "nameset"
      [] p = "scopeck" -> "scopes"
      [] p = "verify" -> "verify"
      [] p = "outline" -> "outline"
      [] p = "grammar" -> "grammar"
      [] p = "stmt_parse" -> "stmt_parse"

\* Content of a result: the segment-set input it was computed from, and the
\* inputs its prerequisite results had been computed from.
Content(s, n, sc, g) == [seg |-> s, name |-> n, scope |-> sc, gram |-> g, torn |-> FALSE]

(***************************************************************************)
(* The passes themselves live outside src/ (nameck, scopeck, verify,       *)
(* grammar, segment_set); they are modelled by what the orchestrator hands *)
(* them: the result reflects the segment set and the prerequisite results  *)
(* it was given.                                                           *)
(***************************************************************************)
\* SegmentSet::new(options, exec): no segment.
SegmentSetNew == Content(EmptyInput, NA, NA, NA)
\* SegmentSet::read(start, text): the set now holds the segments of input i.
SegmentSetRead(c, i) == Content(i, NA, NA, NA)
\* sset.segments().len()
NumSegments(c) == IF c.seg = EmptyInput THEN 0 ELSE 1
\* Nameset::new() and Nameset::update(&pr)
NamesetNew == Content(NA, NA, NA, NA)
NamesetUpdate(c, pr) == Content(pr.seg, NA, NA, NA)
\* ScopeResult::default() and scopeck::scope_check(ns, &parse, &name)
ScopeResultDefault == Content(NA, NA, NA, NA)
scope_check(c, pr, name) == Content(pr.seg, name.seg, NA, NA)
\* VerifyResult::default() and verify::verify(ver, &parse, &name, &scope)
VerifyResultDefault == Content(NA, NA, NA, NA)
verify_pass(c, pr, name, scope) == Content(pr.seg, name.seg, scope.seg, NA)
\* grammar::build_grammar(&mut grammar, &parse, &name)
build_grammar(pr, name) == Content(pr.seg, name.seg, NA, NA)
\* grammar::parse_statements(&mut stmt_parse, &parse, &name, &grammar)
parse_statements(pr, name, gr) == Content(pr.seg, name.seg, NA, gr.seg)
\* outline::build_outline(&mut outline, &parse): the tree built from the
\* headings of the segments (the assertion on segments.len() is in
\* outline_result below).
build_outline_content(pr) == Content(pr.seg, NA, NA, NA)

(***************************************************************************)
(* The world a Database call works on: the fields of the Database, the     *)
(* heap, and what the call has done so far.                                *)
(***************************************************************************)
World(f) ==
    [segments |-> segments, prev_nameset |-> prev_nameset, nameset |-> nameset,
     prev_scopes |-> prev_scopes, scopes |-> scopes,
     prev_verify |-> prev_verify, verify |-> verify, outline |-> outline,
     grammar |-> grammar, stmt_parse |-> stmt_parse,
     heap |-> heap, trace |-> <<>>, panicked |-> FALSE, failing |-> f]

\* A call that panicked unwinds: nothing after the panic runs.
Halt(w) == w.panicked

\* The element of a one-element set.  The({e(w) : w \in {d}}) is e for the
\* value of d: each statement below works on the world the statement before
\* it left.
The(S) == CHOOSE x \in S : TRUE

Ev(wx, e) == [wx EXCEPT !.trace = Append(@, e)]

\* obs: what the caller observed of a handle a call returned: the pass whose
\* accessor returned it ("segments" for parse_result), the handle, whether the
\* caller keeps a clone of the Arc (owned) or only noted its address
\* (Arc::as_ptr), the content it had, and whether parse has been called since
\* ("fresh": no; "noop": yes, each time with the input the database already
\* held; "changed": yes, with another input).  h is NoneH once the allocation
\* whose address was noted has been freed.
NoObs == [pass |-> NoPass, h |-> NoneH, st |-> "none", owned |-> FALSE, c |-> Free]

\* The handles the caller holds a clone of.
Kept(o) == IF o.owned THEN {o.h} ELSE {}

\* The handle of the Arc<DbOptions> given to Database::new.
OptionsH == 1

\* A Database that was not cloned.
NoClone == [made |-> FALSE, h |-> [s \in Slots |-> NoneH],
            c |-> [s \in Slots |-> Free]]

\* Arc::strong_count: the Database fields, the caller's kept clone and the
\* fields of the clone of the Database.
RefCount(w, h) ==
    Cardinality({s \in Slots : w[s] = h}) + (IF h \in Kept(obs) THEN 1 ELSE 0)
        + Cardinality({s \in Slots : clone.h[s] = h})

\* The cell a new allocation of type t gets: one that holds no live
\* allocation.
FreeCell(w, t) ==
    CHOOSE h \in CellsOf(t) :
        /\ RefCount(w, h) = 0
        /\ \A g \in CellsOf(t) : RefCount(w, g) = 0 => h <= g

\* slot = Some(Arc::new(c)); the value the slot held is dropped after that.
ArcNew(wx, slot, c) ==
    The({ IF Halt(w) THEN w
          ELSE LET h == FreeCell(w, SlotType(slot))
               IN  [w EXCEPT ![slot] = h, !.heap = [@ EXCEPT ![h] = c]]
        : w \in {wx} })

\* A faulty make_mut, which never copies.
ArcMakeMut_InPlace(wx, slot) ==
    The({ w : w \in {wx} })

\* A faulty make_mut, which always copies.
ArcMakeMut_AlwaysCopy(wx, slot) ==
    The({ IF Halt(w) THEN w ELSE ArcNew(w, slot, w.heap[w[slot]])
        : w \in {wx} })

\* Arc::make_mut(slot): in place when this is the only owner, else the slot
\* gets a private copy.
ArcMakeMut(wx, slot) ==
    The({ IF Halt(w) THEN w
          ELSE IF RefCount(w, w[slot]) = 1 THEN w
          ELSE ArcNew(w, slot, w.heap[w[slot]])
        : w \in {wx} })

\* *slot = c, through the exclusive reference make_mut gave
SetContent(wx, slot, c) ==
    The({ IF Halt(w) THEN w ELSE [w EXCEPT !.heap = [@ EXCEPT ![w[slot]] = c]]
        : w \in {wx} })

\* slot = v
SetSlot(wx, slot, v) ==
    The({ IF Halt(w) THEN w ELSE [w EXCEPT ![slot] = v] : w \in {wx} })

\* A faulty accessor, which stores a copy of the table in the current slot.
CloneSlot_NewArc(wx, slot, from) ==
    The({ IF Halt(w) THEN w ELSE ArcNew(w, slot, w.heap[w[from]]) : w \in {wx} })

\* A faulty accessor, which stores the table in the current slot although
\* the pass panicked.
CloneSlot_AfterPanic(wx, slot, from) ==
    The({ [w EXCEPT ![slot] = w[from]] : w \in {wx} })

\* slot = from.clone()
CloneSlot(wx, slot, from) ==
    The({ IF Halt(w) THEN w ELSE [w EXCEPT ![slot] = w[from]] : w \in {wx} })

\* if slot.is_none() { slot = Some(Arc::new(c)) }
EnsurePrev(wx, slot, c) ==
    The({ IF Halt(w) \/ w[slot] # NoneH THEN w ELSE ArcNew(w, slot, c)
        : w \in {wx} })

\* A pass that updates the table behind slot in place; if it fails (panics)
\* the table is left partly updated.
UpdatePass(wx, p, slot, c) ==
    The({ IF Halt(w) THEN w
          ELSE IF w.failing = p
               THEN [SetContent(Ev(w, <<"run", p>>), slot, [c EXCEPT !.torn = TRUE])
                       EXCEPT !.panicked = TRUE]
               ELSE SetContent(Ev(w, <<"run", p>>), slot, c)
        : w \in {wx} })

\* A pass that builds a new value, stored as slot = Some(Arc::new(value)).
BuildPass(wx, p, slot, c) ==
    The({ IF Halt(w) THEN w
          ELSE IF w.failing = p
               THEN [Ev(w, <<"run", p>>) EXCEPT !.panicked = TRUE]
               ELSE ArcNew(Ev(w, <<"run", p>>), slot, c)
        : w \in {wx} })

\* fn time(opts, name, f): f starts in the world timed(w, name) and ends in
\* w2; the elapsed time is printed (when opts.timing) only if f returns.
timed(wx, name) ==
    The({ IF Halt(w) THEN w ELSE Ev(w, <<"enter", name>>) : w \in {wx} })

time(name, w2x) ==
    The({ IF Halt(w2) THEN w2 ELSE Ev(w2, <<"exit", name>>) : w2 \in {w2x} })

Seg(w) == w.heap[w.segments]

(***************************************************************************)
(* Database::parse and the accessors.                                      *)
(***************************************************************************)
\* Arc::make_mut(..).read(start, text), on the exclusive reference
segments_read(wx, i) ==
    The({ SetContent(w, "segments", SegmentSetRead(Seg(w), i)) : w \in {wx} })

\* A faulty parse, which empties the previous slot of nameck too.
parse_body_ResetsPrev(wx, i) ==
    LET w1 == ArcMakeMut(wx, "segments")
        w2 == segments_read(w1, i)
        w3 == SetSlot(w2, "nameset", NoneH)
        w4 == SetSlot(w3, "prev_nameset", NoneH)
        w5 == SetSlot(w4, "scopes", NoneH)
        w6 == SetSlot(w5, "verify", NoneH)
        w7 == SetSlot(w6, "outline", NoneH)
    IN  SetSlot(w7, "grammar", NoneH)

\* A faulty parse, which reads into the segment set it shares.
parse_body_InPlace(wx, i) ==
    LET w2 == segments_read(wx, i)
        w3 == SetSlot(w2, "nameset", NoneH)
        w4 == SetSlot(w3, "scopes", NoneH)
        w5 == SetSlot(w4, "verify", NoneH)
        w6 == SetSlot(w5, "outline", NoneH)
    IN  SetSlot(w6, "grammar", NoneH)

parse_body(wx, i) ==
    LET w1 == ArcMakeMut(wx, "segments")
        w2 == segments_read(w1, i)
        w3 == SetSlot(w2, "nameset", NoneH)
        w4 == SetSlot(w3, "scopes", NoneH)
        w5 == SetSlot(w4, "verify", NoneH)
        w6 == SetSlot(w5, "outline", NoneH)
    IN  SetSlot(w6, "grammar", NoneH)

parse(wx, i) ==
    time("parse", parse_body(timed(wx, "parse"), i))

\* ns.update(&pr)
nameck_run(wx) ==
    The({ UpdatePass(w, "nameck", "prev_nameset",
                     NamesetUpdate(w.heap[w.prev_nameset], Seg(w)))
        : w \in {wx} })

nameck_body(wx) ==
    LET w1 == EnsurePrev(wx, "prev_nameset", NamesetNew)
        w2 == ArcMakeMut(w1, "prev_nameset")
        w3 == nameck_run(w2)
    IN  CloneSlot(w3, "nameset", "prev_nameset")

\* A faulty name_result, which ignores the cached result.
name_result_NoCache(wx) ==
    The({ IF Halt(w) THEN w
          ELSE time("nameck", nameck_body(timed(w, "nameck")))
        : w \in {wx} })

name_result(wx) ==
    The({ IF Halt(w) \/ w.nameset # NoneH THEN w
          ELSE time("nameck", nameck_body(timed(w, "nameck")))
        : w \in {wx} })

\* scopeck::scope_check(ns, &parse, &name)
scopeck_run(wx) ==
    The({ UpdatePass(w, "scopeck", "prev_scopes",
                     scope_check(w.heap[w.prev_scopes], Seg(w), w.heap[w.nameset]))
        : w \in {wx} })

scopeck_body(wx) ==
    LET w1 == EnsurePrev(wx, "prev_scopes", ScopeResultDefault)
        w2 == name_result(w1)
        w3 == ArcMakeMut(w2, "prev_scopes")
        w4 == scopeck_run(w3)
    IN  CloneSlot(w4, "scopes", "prev_scopes")

scope_result(wx) ==
    The({ IF Halt(w) \/ w.scopes # NoneH THEN w
          ELSE time("scopeck", scopeck_body(timed(name_result(w), "scopeck")))
        : w \in {wx} })

\* verify::verify(ver, &parse, &name, &scope)
verify_run(wx) ==
    The({ UpdatePass(w, "verify", "prev_verify",
                     verify_pass(w.heap[w.prev_verify], Seg(w),
                                 w.heap[w.nameset], w.heap[w.scopes]))
        : w \in {wx} })

verify_body(wx) ==
    LET w1 == EnsurePrev(wx, "prev_verify", VerifyResultDefault)
        w2 == scope_result(w1)
        w3 == name_result(w2)
        w4 == ArcMakeMut(w3, "prev_verify")
        w5 == verify_run(w4)
    IN  CloneSlot(w5, "verify", "prev_verify")

verify_result(wx) ==
    The({ IF Halt(w) \/ w.verify # NoneH THEN w
          ELSE time("verify",
                    verify_body(timed(scope_result(name_result(w)), "verify")))
        : w \in {wx} })

outline_body(wx) ==
    \* build_outline: assert!(segments.len() > 0, "Parse returned no segment!")
    The({ IF Halt(w) THEN w
          ELSE IF NumSegments(Seg(w)) = 0
               THEN [Ev(w, <<"run", "outline">>) EXCEPT !.panicked = TRUE]
               ELSE BuildPass(w, "outline", "outline", build_outline_content(Seg(w)))
        : w \in {wx} })

outline_result(wx) ==
    The({ IF Halt(w) \/ w.outline # NoneH THEN w
          ELSE time("outline", outline_body(timed(w, "outline")))
        : w \in {wx} })

grammar_body(wx) ==
    The({ BuildPass(w, "grammar", "grammar",
                    build_grammar(Seg(w), w.heap[w.nameset]))
        : w \in {name_result(wx)} })

\* A faulty grammar_result, which ignores the cached result.
grammar_result_NoCache(wx) ==
    The({ IF Halt(w) THEN w
          ELSE time("grammar",
                    grammar_body(timed(scope_result(name_result(w)), "grammar")))
        : w \in {wx} })

grammar_result(wx) ==
    The({ IF Halt(w) \/ w.grammar # NoneH THEN w
          ELSE time("grammar",
                    grammar_body(timed(scope_result(name_result(w)), "grammar")))
        : w \in {wx} })

stmt_parse_body(wx) ==
    The({ BuildPass(w, "stmt_parse", "stmt_parse",
                    parse_statements(Seg(w), w.heap[w.nameset], w.heap[w.grammar]))
        : w \in {grammar_result(name_result(wx))} })

stmt_parse_result(wx) ==
    The({ IF Halt(w) \/ w.stmt_parse # NoneH THEN w
          ELSE time("stmt_parse",
                    stmt_parse_body(timed(scope_result(name_result(w)), "stmt_parse")))
        : w \in {wx} })

\* The accessor of pass p.
Accessor(w, p) ==
    CASE p = "nameck" -> name_result(w)
      [] p = "scopeck" -> scope_result(w)
      [] p = "verify" -> verify_result(w)
      [] p = "outline" -> outline_result(w)
      [] p = "grammar" -> grammar_result(w)
      [] p = "stmt_parse" -> stmt_parse_result(w)

(***************************************************************************)
(* Actions of the Database specification: one per public operation, plus   *)
(* the caller observing a handle it was given.                             *)
(***************************************************************************)
Idle(op) ==
    [op |-> op, pass |-> NoPass, ret |-> NoneH, trace |-> <<>>,
     panicked |-> FALSE, before |-> NoObs]

\* What a call did: the handle it returned (NoneH when it panicked or returns
\* none), the passes and timed regions it went through, and what the caller
\* had observed of the same accessor before.
CallRec(op, p, w, r) ==
    [op |-> op, pass |-> p, ret |-> r, trace |-> w.trace,
     panicked |-> w.panicked,
     before |-> IF obs.pass = p THEN obs ELSE NoObs]

\* The observation after a call: an address that was only noted is forgotten
\* when the input changed.
Remember(o) ==
    IF o.owned \/ o.st # "changed" THEN o ELSE NoObs

\* Which cell of its type an allocation is in is of no consequence (Arc::new
\* may return any free address), so states are kept up to a renaming of the
\* cells of each type: the allocations alive after a call are named in the
\* order of the Database fields that hold them, the one only the caller holds
\* next, those only the clone of the Database holds last.  An address that is
\* no longer alive is renamed NoneH.
Holders(w, o, t) ==
    [i \in 1..(2 * Len(TypeSlots(t)) + 1) |->
        IF i <= Len(TypeSlots(t)) THEN w[TypeSlots(t)[i]]
        ELSE IF i = Len(TypeSlots(t)) + 1 THEN (IF o.owned THEN o.h ELSE NoneH)
        ELSE clone.h[TypeSlots(t)[i - Len(TypeSlots(t)) - 1]]]

Rename(w, o) ==
    [h \in 0..HeapCells |->
        IF h = NoneH THEN NoneH
        ELSE LET t == ((h - 1) \div CellsPerType) + 1
                 hs == Holders(w, o, t)
                 at == {i \in DOMAIN hs : hs[i] = h}
             IN  IF at = {} THEN NoneH
                 ELSE LET first == CHOOSE i \in at : \A j \in at : i <= j
                      IN  (t - 1) * CellsPerType
                          + Cardinality({hs[j] : j \in 1..first} \ {NoneH})]

\* An observation under the renaming r: the address of an allocation that has
\* been freed is the address of no live allocation.
Renamed(r, o) ==
    [o EXCEPT !.h = r[o.h], !.c = IF r[o.h] = NoneH THEN Free ELSE @]

\* The Database, the heap, the caller's observation o and the call record c
\* after a call that ended in world w; allocations nobody owns any more are
\* freed.
Commit(w, ox, cx) ==
    \E o \in {ox} : \E c \in {cx} : \E r \in {Rename(w, o)} :
    /\ segments' = r[w.segments]
    /\ prev_nameset' = r[w.prev_nameset]
    /\ nameset' = r[w.nameset]
    /\ prev_scopes' = r[w.prev_scopes]
    /\ scopes' = r[w.scopes]
    /\ prev_verify' = r[w.prev_verify]
    /\ verify' = r[w.verify]
    /\ outline' = r[w.outline]
    /\ grammar' = r[w.grammar]
    /\ stmt_parse' = r[w.stmt_parse]
    /\ heap' = [h \in 0..HeapCells |->
                  IF \E g \in Handles : r[g] = h /\ h # NoneH
                  THEN w.heap[CHOOSE g \in Handles : r[g] = h] ELSE Free]
    /\ obs' = Renamed(r, o)
    /\ clone' = [clone EXCEPT !.h = [s \in Slots |-> r[clone.h[s]]]]
    /\ UNCHANGED <<options, exVars, pmVars, olVars>>
    /\ call' = [c EXCEPT !.ret = r[c.ret], !.before = Renamed(r, c.before)]

\* Database::new(options): the fields of the Database
DatabaseNew ==
    /\ options = OptionsH
    /\ segments = 1
    /\ prev_nameset = NoneH /\ nameset = NoneH
    /\ prev_scopes = NoneH /\ scopes = NoneH
    /\ prev_verify = NoneH /\ verify = NoneH
    /\ outline = NoneH /\ grammar = NoneH /\ stmt_parse = NoneH
    /\ heap = [h \in 0..HeapCells |-> IF h = 1 THEN SegmentSetNew ELSE Free]
    /\ obs = NoObs
    /\ call = Idle("new")
    /\ clone = NoClone

\* Database::new(options) with options.jobs = 1
DbInit == DatabaseNew /\ ExecutorNew(1) /\ NoPromises /\ NoOutline

\* db.parse(start, text) with input i
Parse(i) ==
    \E w \in {parse(World(NoPass), i)} :
    Commit(w,
           Remember([obs EXCEPT !.st = IF obs.pass = NoPass THEN @
                                       ELSE IF i = heap[segments].seg /\ @ # "changed"
                                       THEN "noop" ELSE "changed"]),
           CallRec("parse", NoPass, w, NoneH))

\* db.parse_result()
ParseResult ==
    /\ call' = CallRec("parse_result", "segments", World(NoPass), segments)
    /\ UNCHANGED <<options, segments, prev_nameset, nameset, prev_scopes, scopes,
                   prev_verify, verify, outline, grammar, stmt_parse,
                   heap, obs, clone, exVars, pmVars, olVars>>

\* db.name_result(), ..., db.stmt_parse_result(): the accessor of pass p,
\* during which pass f (if it runs) fails.
Access(p, f) ==
    \E w \in {Accessor(World(f), p)} :
    Commit(w, obs, CallRec("accessor", p, w,
                           IF w.panicked THEN NoneH ELSE w[CurSlot(p)]))

\* The caller observes the handle the last call returned a reference to: it
\* keeps a clone of it (own) or only notes its address; what it had observed
\* before is dropped.
Observe(own) ==
    /\ call.op \in {"accessor", "parse_result"}
    /\ call.ret # NoneH
    /\ \E w \in {World(NoPass)} : Commit(w,
              [pass |-> call.pass, h |-> call.ret, st |-> "fresh",
               owned |-> own, c |-> heap[call.ret]],
              Idle("observe"))

\* The caller drops what it observed.
Forget ==
    /\ obs # NoObs
    /\ \E w \in {World(NoPass)} : Commit(w, NoObs, Idle("forget"))

\* Clone::clone on the Database: each field is cloned, which for an
\* Option<Arc<_>> is one more owner of the same allocation.
DbClone ==
    /\ ~clone.made
    /\ clone' = [made |-> TRUE,
                 h |-> [s \in Slots |-> World(NoPass)[s]],
                 c |-> [s \in Slots |-> heap[World(NoPass)[s]]]]
    /\ call' = Idle("call")
    /\ UNCHANGED <<options, segments, prev_nameset, nameset, prev_scopes, scopes,
                   prev_verify, verify, outline, grammar, stmt_parse,
                   heap, obs, exVars, pmVars, olVars>>

\* db.parse(start, text) and the accessor of pass p, with no record kept of
\* what the call did.
ParseUnobserved(i) ==
    \E w \in {parse(World(NoPass), i)} : Commit(w, obs, Idle("call"))

AccessUnobserved(p, f) ==
    \E w \in {Accessor(World(f), p)} : Commit(w, obs, Idle("call"))

\* The fields Drop for Database sets to None, in the order of its
\* assignments, and the fields of the struct in the order of declaration, in
\* which those still set are dropped once drop has returned.
DropAssignments == <<"prev_verify", "verify", "prev_scopes", "scopes",
                     "prev_nameset", "nameset", "segments", "outline">>
FieldsDeclared == <<"segments", "prev_nameset", "nameset", "prev_scopes", "scopes",
                    "prev_verify", "verify", "outline", "grammar", "stmt_parse">>

\* The fields of world w that hold a value, in the order in which dropping
\* the Database releases them.
drop_order(w) ==
    LET Set(s) == w[s] # NoneH
        Left(s) == w[s] # NoneH /\ \A i \in DOMAIN DropAssignments : DropAssignments[i] # s
    IN  SelectSeq(DropAssignments, Set) \o SelectSeq(FieldsDeclared, Left)

\* The Database is dropped: drop runs its assignments, then the fields are
\* dropped; an allocation is freed unless the caller or a clone holds it.
Drop ==
    /\ released = <<>>
    /\ released' = drop_order(World(NoPass))
    /\ options' = NoneH
    /\ segments' = NoneH
    /\ prev_nameset' = NoneH /\ nameset' = NoneH
    /\ prev_scopes' = NoneH /\ scopes' = NoneH
    /\ prev_verify' = NoneH /\ verify' = NoneH
    /\ outline' = NoneH /\ grammar' = NoneH /\ stmt_parse' = NoneH
    /\ heap' = [h \in 0..HeapCells |->
                  IF h \in Kept(obs) \/ \E s \in Slots : clone.h[s] = h
                  THEN heap[h] ELSE Free]
    /\ call' = Idle("drop")
    /\ UNCHANGED <<obs, clone, exVars, pmVars, building>>

\* The Database on its own: any call, any pass failing.
DbNext ==
    \/ \E i \in Inputs : Parse(i)
    \/ ParseResult
    \/ \E p \in Passes : \E f \in Passes \cup {NoPass} : Access(p, f)

SpecDb == DbInit /\ [][DbNext]_vars

\* The Database and a caller that observes the handles it is given (no pass
\* fails).
DbObsNext ==
    \/ \E i \in Inputs : Parse(i)
    \/ ParseResult
    \/ \E p \in Passes : Access(p, NoPass)
    \/ \E own \in BOOLEAN : Observe(own)
    \/ Forget

SpecDbObs == DbInit /\ [][DbObsNext]_vars

\* The Database and a clone made of it at some point: any call on the
\* Database, the pass of the accessor failing or not, while the clone is left
\* alone.
DbCloneNext ==
    \/ \E i \in Inputs : ParseUnobserved(i)
    \/ \E p \in Passes : \E f \in {p, NoPass} : AccessUnobserved(p, f)
    \/ DbClone

SpecDbClone == DbInit /\ [][DbCloneNext]_vars

\* The Database called, the pass of the accessor failing or not, and dropped
\* at some point.
DbDropNext ==
    \/ \E i \in Inputs : released = <<>> /\ ParseUnobserved(i)
    \/ \E p \in Passes : \E f \in {p, NoPass} :
          released = <<>> /\ AccessUnobserved(p, f)
    \/ Drop

SpecDbDrop == DbInit /\ [][DbDropNext]_vars


(***************************************************************************)
(* Specifications of the Executor.                                         *)
(***************************************************************************)
\* The Database is left as constructed while the executor is exercised.
ExecInit == DatabaseNew /\ NoPromises /\ NoOutline /\ \E c \in Concurrencies : ExecutorNew(c)

ExecNext ==
    \/ \E e \in Estimates : \E f \in BOOLEAN : Len(tasks) < MaxTasks /\ Exec(e, f)
    \/ \E w \in Workers : WLock(w)
    \/ \E w \in Workers : WCheck(w)
    \/ \E w \in Workers : WSpurious(w)
    \/ \E w \in Workers : JLock(w)
    \/ \E w \in Workers : JBody(w)
    \/ \E t \in TaskIds : WaitCall(t)
    \/ \E t \in TaskIds : WaitLock(t)
    \/ \E t \in TaskIds : WaitCheck(t)
    \/ \E t \in TaskIds : WaitSpurious(t)

\* Any executor, any tasks, any interleaving.
SpecExec == ExecInit /\ [][ExecNext]_vars

\* Pool mode under fair scheduling: a thread that can take a step, or that
\* can again and again take the lock it is blocked on, eventually does.
PoolInit == DatabaseNew /\ NoPromises /\ NoOutline /\ \E c \in Concurrencies : c > 1 /\ ExecutorNew(c)

Fairness ==
    /\ \A w \in Workers : SF_vars(WLock(w)) /\ WF_vars(WCheck(w))
    /\ \A w \in Workers : SF_vars(JLock(w)) /\ WF_vars(JBody(w))
    /\ \A t \in TaskIds : SF_vars(WaitLock(t)) /\ WF_vars(WaitCheck(t))

\* The estimates only order the pops; they are all the same here.
PoolNext ==
    \/ \E f \in BOOLEAN : Len(tasks) < MaxTasks /\ Exec(MaxEst, f)
    \/ \E w \in Workers : WLock(w)
    \/ \E w \in Workers : WCheck(w)
    \/ \E w \in Workers : WSpurious(w)
    \/ \E w \in Workers : JLock(w)
    \/ \E w \in Workers : JBody(w)
    \/ \E t \in TaskIds : WaitCall(t)
    \/ \E t \in TaskIds : WaitLock(t)
    \/ \E t \in TaskIds : WaitCheck(t)
    \/ \E t \in TaskIds : WaitSpurious(t)

SpecPoolFair == PoolInit /\ [][PoolNext]_vars /\ Fairness

\* The priority scenario: ScenarioJobs jobs, the k-th with estimate k, queued
\* in that order on an executor built with jobs = 1; the promises are then
\* waited on in the order of submission, as long as none raises.
ScenarioInit == DatabaseNew /\ ExecutorNew(1) /\ NoPromises /\ NoOutline

NextToWait(t) ==
    /\ Len(tasks) = ScenarioJobs
    /\ \A u \in 1..(t - 1) : tasks[u].wpc = "ret"

ScenarioNext ==
    \/ \E f \in BOOLEAN : Len(tasks) < ScenarioJobs /\ Exec(Len(tasks) + 1, f)
    \/ \E t \in 1..ScenarioJobs : NextToWait(t) /\ WaitCall(t)
    \/ \E t \in 1..ScenarioJobs : NextToWait(t) /\ WaitLock(t)
    \/ \E t \in 1..ScenarioJobs : NextToWait(t) /\ WaitCheck(t)

SpecPriority == ScenarioInit /\ [][ScenarioNext]_vars

(***************************************************************************)
(* Claims about the Database.                                              *)
(***************************************************************************)
CurrentSlots == {nameset, scopes, verify, outline, grammar, stmt_parse}

\* C1 (as claimed): after Database::parse returns, the current-result slot of
\* every pass (nameset, scopes, verify, outline, grammar, stmt_parse) is empty.
C1_ParseEmptiesEveryCurrentSlot ==
    call.op = "parse" => CurrentSlots = {NoneH}

\* A result is that of the segment set the database holds now: it was
\* computed from it, and so were the prerequisite results it used.
UpToDate(c) ==
    /\ ~c.torn
    /\ c.seg = heap[segments].seg
    /\ c.name \in {NA, heap[segments].seg}
    /\ c.scope \in {NA, heap[segments].seg}
    /\ c.gram \in {NA, heap[segments].seg}

\* C2 (as claimed): the result an accessor returns was computed from the
\* segment set produced by the most recent parse.
C2_AccessorReturnsResultOfLatestParse ==
    (call.op = "accessor" /\ ~call.panicked) => UpToDate(heap[call.ret])

\* C3: an accessor called again with no parse in between returns the handle
\* its earlier call returned, and runs no pass (and enters no timed region).
C3_SecondCallSameHandleNoRun ==
    (call.op = "accessor" /\ call.before.st = "fresh")
        => /\ ~call.panicked
           /\ call.ret = call.before.h
           /\ call.trace = <<>>

\* C3 witness: grammar_result called twice returned the same handle.
C3_Witness ==
    /\ call.op = "accessor" /\ call.pass = "grammar"
    /\ call.before.h # NoneH /\ call.before.st = "fresh"
    /\ call.ret = call.before.h

\* C4 (as claimed): after a parse with the same inputs every accessor returns
\* the handle it returned before that parse.
C4_SameHandleAfterNoopParse ==
    (call.op = "accessor" /\ ~call.panicked /\ call.before.st = "noop")
        => call.ret = call.before.h

\* C4 (amended): after a parse with the same inputs, the accessor returns the
\* handle it returned before exactly when the pass is stmt_parse (which
\* parse does not invalidate), or the pass is nameck, scopeck or verify and
\* the caller holds no clone of that handle (the table is then updated in
\* place); outline and grammar are rebuilt in a new allocation, and a table
\* the caller still holds is copied.
C4_SameHandleAfterNoopParseAmended ==
    (call.op = "accessor" /\ ~call.panicked /\ call.before.st = "noop")
        => (call.ret = call.before.h
              <=> \/ call.pass = "stmt_parse"
                  \/ /\ call.pass \in {"nameck", "scopeck", "verify"}
                     /\ ~call.before.owned)

\* C4 witness: name_result, after a parse with the same input, ran nameck and
\* returned the handle the caller had noted before that parse.
C4_Witness ==
    /\ call.op = "accessor" /\ call.pass = "nameck"
    /\ call.before.h # NoneH /\ call.before.st = "noop"
    /\ ~call.before.owned
    /\ call.trace # <<>>
    /\ call.ret = call.before.h

(***************************************************************************)
(* Claims about the Executor.                                              *)
(***************************************************************************)
Submitted == DOMAIN tasks

\* The job closure of task t has run to its end.
Finished(t) == tasks[t].runs = 1 /\ tasks[t].slock # "job"

\* C5 (as claimed): in the priority scenario (jobs = 1, estimates 1, 2, ...
\* in that order) the jobs complete in descending order of estimate.
C5_CompletesInDescendingOrder ==
    Len(done) = ScenarioJobs
        => \A i \in 1..ScenarioJobs : tasks[done[i]].est = ScenarioJobs + 1 - i

\* C5 (amended): in the priority scenario every job has completed when its
\* exec call returns, so the jobs complete in the order of submission, which
\* is the ascending order of estimate 1, 2, ...
C5_CompletesInSubmissionOrder ==
    /\ Len(done) = Len(tasks)
    /\ \A i \in 1..Len(done) : done[i] = i /\ tasks[done[i]].est = i

\* C5 witness: all the jobs of the scenario have completed.
C5_Witness ==
    /\ concurrency = 1
    /\ Len(done) = ScenarioJobs
    /\ tasks[done[1]].est = 1 /\ tasks[done[ScenarioJobs]].est = ScenarioJobs

\* C6: in pool mode, no job left in the queue when a worker takes one has a
\* strictly higher estimate than the job taken.
C6_WorkerTakesHighestEstimate ==
    [][\A w \in DOMAIN threads :
          (threads[w].pc = "check" /\ threads'[w].pc = "job")
              => \A u \in queue' : tasks[u].est <= tasks[threads'[w].job].est]_vars

\* C6 witness: a worker has just taken the job queued second, of estimate 2,
\* and left in the queue the job queued first, of estimate 1.
C6_Witness ==
    /\ concurrency > 1
    /\ Len(tasks) = 2
    /\ tasks[1].est = 1 /\ tasks[2].est = 2
    /\ queue = {1}
    /\ \E w \in DOMAIN threads : threads[w].pc = "job" /\ threads[w].job = 2

\* C7: with jobs <= 1 no job is ever in the queue, there is no worker thread,
\* every task has run exactly once by the time its exec call returned and its
\* promise holds the outcome until wait takes it, and the tasks complete in
\* submission order whatever their estimates.
C7_InlineRunsBeforeExecReturns ==
    concurrency <= 1 =>
        /\ queue = {}
        /\ DOMAIN threads = {}
        /\ \A t \in Submitted :
              /\ tasks[t].runs = 1 /\ tasks[t].by = NoThread
              /\ \/ tasks[t].slot = (IF tasks[t].fails THEN "err" ELSE "ok")
                 \/ tasks[t].wpc \in {"ret", "raised"}
        /\ done = [i \in 1..Len(tasks) |-> i]

\* C7 witness: inline, a task of estimate 1 completed before a task of
\* estimate 2 submitted after it.
C7_Witness ==
    /\ concurrency <= 1
    /\ Len(tasks) = 2
    /\ tasks[1].est = 1 /\ tasks[2].est = 2
    /\ done = <<1, 2>>

\* C8: wait returns only after its own task has finished, with the value that
\* task produced (or raises, when that task failed); no task body runs more
\* than once and no result slot is written more than once, and both happened
\* exactly once when wait is over.
C8_WaitReturnsOwnResultOnce ==
    \A t \in Submitted :
        /\ tasks[t].runs <= 1
        /\ tasks[t].writes <= 1
        /\ tasks[t].wpc = "ret" =>
              /\ Finished(t) /\ tasks[t].writes = 1
              /\ ~tasks[t].fails
              /\ tasks[t].got = TaskValue(t)
        /\ tasks[t].wpc = "raised" =>
              /\ Finished(t) /\ tasks[t].writes = 1
              /\ tasks[t].fails

\* C8 witness: in pool mode two waiters have each returned the value of their
\* own task, one of them having blocked before its task finished.
C8_Witness ==
    /\ concurrency > 1
    /\ Len(tasks) = 2
    /\ tasks[1].wpc = "ret" /\ tasks[1].got = TaskValue(1)
    /\ tasks[2].wpc = "ret" /\ tasks[2].got = TaskValue(2)
    /\ tasks[2].slept
    /\ tasks[1].by # tasks[2].by

Waiting(t) == t \in Submitted /\ tasks[t].wpc \in {"lock", "check", "cvwait"}
WaitOver(t) == t \in Submitted /\ tasks[t].wpc \in {"ret", "raised"}

\* C9: in pool mode under fair scheduling, every queued job is eventually
\* taken and run by a worker, and every wait eventually returns (or raises
\* the failure of its task).
C9_EveryJobRunsEveryWaitReturns ==
    \A t \in TaskIds :
        /\ (t \in queue) ~> (t \in Submitted /\ Finished(t) /\ tasks[t].by \in Workers)
        /\ Waiting(t) ~> WaitOver(t)

\* C9 witness: a waiter that blocked on the condition variable before its
\* task finished has returned, and so has one that arrived after.
C9_Witness ==
    /\ concurrency > 1
    /\ Len(tasks) = 2
    /\ tasks[1].wpc = "ret" /\ tasks[1].slept
    /\ tasks[2].wpc = "ret" /\ ~tasks[2].slept

NoThreadDied == \A w \in DOMAIN threads : threads[w].pc # "dead"

\* A failure is stored in the result slot when the task has finished, until
\* wait takes it, and surfaces nowhere else than in wait.
FailureStoredUntilWait ==
    \A t \in Submitted :
        /\ (tasks[t].fails /\ Finished(t) /\ tasks[t].wpc # "raised") => tasks[t].slot = "err"
        /\ tasks[t].wpc = "raised" => tasks[t].fails

\* C10 (as claimed): a failing task makes neither exec fail nor a worker
\* stop, its failure is stored and raised only by wait, and neither the queue
\* lock nor a result-slot lock is ever poisoned.
C10_FailureContainedNoLockPoisoned ==
    /\ ~execfailed
    /\ NoThreadDied
    /\ FailureStoredUntilWait
    /\ ~qpoisoned
    /\ \A t \in Submitted : ~tasks[t].poisoned

\* C10 (amended): a failing task makes neither exec fail nor a worker stop,
\* its failure is stored and raised only by wait, and the queue lock is never
\* poisoned; the result-slot lock is not poisoned by the failing task, it is
\* poisoned only by wait raising the stored failure while it holds the lock,
\* when the job closure has finished and no thread takes that lock again.
C10_FailureContainedSlotPoisonedByWaitOnly ==
    /\ ~execfailed
    /\ NoThreadDied
    /\ FailureStoredUntilWait
    /\ ~qpoisoned
    /\ \A t \in Submitted :
          tasks[t].poisoned =>
              /\ tasks[t].fails /\ tasks[t].wpc = "raised"
              /\ Finished(t)
              /\ \A w \in DOMAIN threads : threads[w].job # t

\* C10 witness: in pool mode the worker that ran a failing task has since run
\* another task, and wait on the failing task's promise has raised.
C10_Witness ==
    /\ concurrency > 1
    /\ Len(tasks) = 2
    /\ tasks[1].fails /\ tasks[1].wpc = "raised" /\ tasks[1].poisoned
    /\ tasks[2].runs = 1 /\ tasks[2].by = tasks[1].by
    /\ done = <<1, 2>>

(***************************************************************************)
(* Specification of the promises made by map and join over the tasks of an *)
(* executor, inline or with a pool.                                        *)
(***************************************************************************)
PromiseInit ==
    /\ DatabaseNew
    /\ NoPromises
    /\ NoOutline
    /\ \E c \in {1, MaxJobs} : ExecutorNew(c)

PromiseNext ==
    \/ \E f \in BOOLEAN : Len(tasks) < MaxTasks /\ Exec(MaxEst, f)
    \/ \E w \in Workers : WLock(w)
    \/ \E w \in Workers : WCheck(w)
    \/ \E w \in Workers : JLock(w)
    \/ \E w \in Workers : JBody(w)
    \/ \E t \in TaskIds : Map(t)
    \/ \E vec \in Vectors(TaskIds) : Join(vec)
    \/ JoinWait
    \/ \E t \in TaskIds : MayWait(t) /\ WaitCall(t)
    \/ \E t \in TaskIds : WaitLock(t)
    \/ \E t \in TaskIds : WaitCheck(t)
    \/ \E t \in TaskIds : WaitSpurious(t)
    \/ \E t \in TaskIds : MapWaitOver(t)
    \/ JoinWaitOver

SpecPromise == PromiseInit /\ [][PromiseNext]_vars

\* The value wait returns for the promise of task t when its task succeeds.
Expected(t) == IF maps[t].mapped THEN MapFun(TaskValue(t)) ELSE TaskValue(t)

\* C11: when wait on the promise made by join returns, it returns one result
\* for each promise of the input vector, the result at each index being the
\* result of the promise at that index, whatever the order in which the
\* tasks completed; and it fails only if a task of the vector failed.
C11_JoinReturnsResultsInInputOrder ==
    /\ join.st = "ret" =>
          /\ Len(join.res) = Len(join.vec)
          /\ \A i \in DOMAIN join.vec : join.res[i] = Expected(join.vec[i])
    /\ join.st = "raised" => \E i \in DOMAIN join.vec : tasks[join.vec[i]].fails

\* Two promises were joined, the task of the second one completed before the
\* task of the first one, and wait on the join returned.
C11_Witness ==
    /\ join.st = "ret"
    /\ Len(join.vec) = 2
    /\ Len(done) = 2
    /\ done[1] = join.vec[2]

\* The promises of the joined vector whose task fails, by index.
FailingIndexes == { i \in DOMAIN join.vec : tasks[join.vec[i]].fails }

\* C12: wait on map(p, f) when p failed raises the failure of p and f is not
\* applied; wait on a joined vector with a failed promise raises the failure
\* of the failing promise of lowest index, whichever failed first in time.
C12_FailureReRaisedLowestIndexFirst ==
    /\ \A t \in DOMAIN tasks :
          /\ (maps[t].mapped /\ tasks[t].wpc = "raised") =>
                 maps[t].fruns = 0 /\ maps[t].st \in {"pending", "raised"}
          /\ (maps[t].mapped /\ maps[t].st = "raised") =>
                 tasks[t].fails /\ tasks[t].wpc = "raised"
    /\ join.st = "raised" =>
          /\ FailingIndexes # {}
          /\ \A i \in FailingIndexes : join.idx <= i
          /\ join.err = join.vec[join.idx]
          /\ join.idx \in FailingIndexes

\* Two failing promises were joined, the first of them mapped; the task of
\* the second failed first in time, and wait on the join raised.
C12_Witness ==
    /\ join.st = "raised"
    /\ Len(join.vec) = 2
    /\ FailingIndexes = {1, 2}
    /\ maps[join.vec[1]].mapped
    /\ maps[join.vec[1]].st = "raised"
    /\ done = <<join.vec[2], join.vec[1]>>

\* C13: the function given to map does not run when map is called nor when
\* the task completes: it has not run while wait was not called or has not
\* got the value of the task; it runs once, in wait, after the value of the
\* task was taken from the slot, and wait on the mapped promise returns only
\* after it ran.
C13_MapFunctionRunsOnceInWait ==
    \A t \in DOMAIN tasks :
        /\ maps[t].fruns <= 1
        /\ ~maps[t].mapped => maps[t].fruns = 0
        /\ tasks[t].wpc # "ret" => maps[t].fruns = 0
        /\ maps[t].fruns = 1 =>
              /\ maps[t].fat = "wait"
              /\ maps[t].mval = MapFun(tasks[t].got)
              /\ maps[t].st = "ret"
        /\ (maps[t].mapped /\ maps[t].st = "ret") => maps[t].fruns = 1

\* A mapped promise whose task completed and on which wait was never called
\* (the function did not run), next to a mapped promise whose waiter slept
\* before the value came (the function ran once).
C13_Witness ==
    \E t, u \in DOMAIN tasks :
        /\ maps[t].mapped /\ tasks[t].runs = 1 /\ tasks[t].wpc = "held"
        /\ maps[t].fruns = 0
        /\ maps[u].mapped /\ tasks[u].slept /\ maps[u].fruns = 1

\* The passes a call ran, in the order in which they ran.
PassesRun(trace) ==
    LET IsRun(e) == e[1] = "run"
        runs == SelectSeq(trace, IsRun)
    IN  [i \in 1..Len(runs) |-> runs[i][2]]

\* A pass with the passes it needs, each after the passes it needs itself.
WithPrerequisites(p) ==
    CASE p = "nameck" -> <<"nameck">>
      [] p = "scopeck" -> <<"nameck", "scopeck">>
      [] p = "verify" -> <<"nameck", "scopeck", "verify">>
      [] p = "outline" -> <<"outline">>
      [] p = "grammar" -> <<"nameck", "scopeck", "grammar">>
      [] p = "stmt_parse" -> <<"nameck", "scopeck", "grammar", "stmt_parse">>

IsPrefix(a, b) == Len(a) <= Len(b) /\ \A i \in DOMAIN a : a[i] = b[i]

\* C14: an accessor called while no current slot holds a result runs the
\* pass it is the accessor of and the passes that one needs, each once and
\* after the passes it needs itself, and no other pass; when a pass fails the
\* call has run the passes up to the failing one.
C14_AccessorRunsPassAndPrerequisitesOnce ==
    [][(call'.op = "accessor" /\ CurrentSlots = {NoneH})
          => /\ IsPrefix(PassesRun(call'.trace), WithPrerequisites(call'.pass))
             /\ ~call'.panicked =>
                   PassesRun(call'.trace) = WithPrerequisites(call'.pass)]_vars

\* stmt_parse_result returned after running nameck, scopeck, grammar and
\* stmt_parse.
C14_Witness ==
    /\ call.op = "accessor"
    /\ call.pass = "stmt_parse"
    /\ ~call.panicked
    /\ PassesRun(call.trace) = <<"nameck", "scopeck", "grammar", "stmt_parse">>

\* C15: once the Database was cloned, whatever is called on the Database,
\* each field of the clone that held a result still holds an allocation
\* with the content it had when the clone was made.
C15_CloneKeepsHandlesAndContents ==
    clone.made =>
        \A s \in Slots :
            IF clone.c[s] = Free THEN clone.h[s] = NoneH
            ELSE clone.h[s] # NoneH /\ heap[clone.h[s]] = clone.c[s]

\* The clone holds the segment set and the nameset of before, the Database
\* the segment set read by a later parse and the nameset computed from it.
C15_Witness ==
    /\ clone.made
    /\ clone.h["nameset"] # NoneH
    /\ nameset \notin {NoneH, clone.h["nameset"]}
    /\ heap[nameset] # clone.c["nameset"]
    /\ segments # clone.h["segments"]
    /\ heap[segments] # clone.c["segments"]

\* The handle in the current slot of each pass.
Current == [p \in Passes |-> World(NoPass)[CurSlot(p)]]

\* C16: when a pass panics inside an accessor, the current slot of that pass
\* is empty after the call; the current slot of a pass that completed
\* earlier in the same call holds its result, and the current slot of every
\* other pass is empty if it was empty and holds what it held otherwise.
C16_FailedPassLeavesCurrentSlotEmpty ==
    [][(call'.op = "accessor" /\ call'.panicked)
          => LET runs == PassesRun(call'.trace)
                 failed == runs[Len(runs)]
                 completed == { runs[i] : i \in 1..(Len(runs) - 1) }
             IN  /\ Current[failed] = NoneH
                 /\ Current'[failed] = NoneH
                 /\ \A q \in Passes \ {failed} :
                       IF q \in completed
                       THEN /\ Current[q] = NoneH
                            /\ Current'[q] # NoneH
                            /\ ~heap'[Current'[q]].torn
                       ELSE IF Current[q] = NoneH
                       THEN Current'[q] = NoneH
                       ELSE /\ Current'[q] # NoneH
                            /\ heap'[Current'[q]] = heap[Current[q]]]_vars

\* verify_result ran nameck and scopeck, then verify panicked: nameset and
\* scopes are set, verify is empty and the table of prev_verify is left
\* partly updated.
C16_Witness ==
    /\ call.op = "accessor"
    /\ call.panicked
    /\ PassesRun(call.trace) = <<"nameck", "scopeck", "verify">>
    /\ verify = NoneH
    /\ nameset # NoneH /\ scopes # NoneH
    /\ prev_verify # NoneH /\ heap[prev_verify].torn

\* C17 (as claimed): every accessor call returns a result, in every
\* reachable state of a Database none of whose passes fails, a Database that
\* was never parsed included.
C17_AccessorAlwaysReturnsResult ==
    call.op = "accessor" => ~call.panicked /\ call.ret # NoneH

(***************************************************************************)
(* Specification of build_outline over every sequence of headings.         *)
(***************************************************************************)
OutlineInit ==
    /\ DatabaseNew
    /\ ExecutorNew(1)
    /\ NoPromises
    /\ NoOutline

OutlineNext == \E l \in HeadingLevels : Heading(l)

SpecOutline == OutlineInit /\ [][OutlineNext]_vars

\* C18: while every heading met is deeper than the level of the root, no
\* add_child panics and the pre-order traversal of the tree below the root
\* is the sequence of the headings met, each once, in the order met.
C18_PreOrderIsHeadingSequence ==
    (\A i \in DOMAIN building.met : building.met[i].level > Database)
        => /\ ~building.panicked
           /\ PreOrder(building.node, 1) = building.met

\* Five headings were met, going deeper and back up, and the tree has nodes
\* at depth one, two and three.
C18_Witness ==
    /\ Len(building.met) = 5
    /\ [i \in 1..5 |-> building.met[i].level] = <<1, 2, 3, 2, 1>>
    /\ Len(building.node.children) = 2
    /\ Len(building.node.children[1].children) = 2
    /\ Len(building.node.children[1].children[1].children) = 1

\* Node r is node n with the child put somewhere below the last child of n.
UnderLastChild(n, r, child) ==
    /\ Len(r.children) = Len(n.children)
    /\ \A i \in 1..(Len(n.children) - 1) : r.children[i] = n.children[i]
    /\ HeadingOf(r.children[Len(n.children)]) = HeadingOf(n.children[Len(n.children)])
    /\ \E i \in DOMAIN PreOrder(r.children[Len(n.children)], 1) :
           PreOrder(r.children[Len(n.children)], 1)[i] = HeadingOf(child)

\* Node r is node n with the child appended as a sibling of its last child.
SiblingOfLastChild(n, r, child) == r.children = Append(n.children, child)

\* The nodes with a child of the outline built so far, each with the new
\* nodes add_child accepts for it.
AddChildCases ==
    { <<n, from_heading_def(l, Len(building.met) + 1)>> :
        n \in { m \in Nodes(building.node) : m.children # <<>> },
        l \in HeadingLevels }

\* C19 (as claimed): add_child puts the new node under the last child of the
\* node when the level of the last child is greater than the level of the
\* new node, and appends it as a sibling of the last child otherwise.
C19_UnderLastChildWhenLastChildDeeper ==
    \A c \in AddChildCases :
        c[2].level > c[1].level =>
            IF c[1].children[Len(c[1].children)].level > c[2].level
            THEN UnderLastChild(c[1], add_child(c[1], c[2]).node, c[2])
            ELSE SiblingOfLastChild(c[1], add_child(c[1], c[2]).node, c[2])

\* C19 (amended): add_child puts the new node under the last child of the
\* node when the level of the new node is greater than the level of the last
\* child, and appends it as a sibling of the last child otherwise.
C19_UnderLastChildWhenNewNodeDeeper ==
    \A c \in AddChildCases :
        c[2].level > c[1].level =>
            /\ ~add_child(c[1], c[2]).panicked
            /\ IF c[2].level > c[1].children[Len(c[1].children)].level
               THEN UnderLastChild(c[1], add_child(c[1], c[2]).node, c[2])
               ELSE SiblingOfLastChild(c[1], add_child(c[1], c[2]).node, c[2])

\* A heading of level 2 was put under the heading of level 1 met before it,
\* and a second heading of level 1 was appended as a sibling of the first.
C19_Witness ==
    /\ [i \in DOMAIN building.met |-> building.met[i].level] = <<1, 2, 1>>
    /\ Len(building.node.children) = 2
    /\ Len(building.node.children[1].children) = 1
    /\ building.node.children[2].children = <<>>

\* The place of field s in the order of release (0: not released).
ReleasedAt(s) ==
    IF \E i \in DOMAIN released : released[i] = s
    THEN CHOOSE i \in DOMAIN released : released[i] = s
    ELSE 0

\* Field a was released before field b, when both were released.
ReleasedBefore(a, b) ==
    (ReleasedAt(a) # 0 /\ ReleasedAt(b) # 0) => ReleasedAt(a) < ReleasedAt(b)

\* C20 (as claimed): when the Database is dropped, the verify slots are
\* released before the scope slots, the scope slots before the name slots,
\* the name slots before the segment set, and no slot of a pass is released
\* after the segment set.
C20_SlotsReleasedInReverseDependencyOrder ==
    /\ \A a \in {"prev_verify", "verify"} : \A b \in {"prev_scopes", "scopes"} :
           ReleasedBefore(a, b)
    /\ \A a \in {"prev_scopes", "scopes"} : \A b \in {"prev_nameset", "nameset"} :
           ReleasedBefore(a, b)
    /\ \A a \in {"prev_nameset", "nameset"} : ReleasedBefore(a, "segments")
    /\ \A a \in Slots \ {"segments"} : ReleasedBefore(a, "segments")

\* The timed regions open at place i of a trace: entered before i and not
\* left before i.
OpenRegions(trace, i) ==
    { trace[j][2] : j \in { k \in 1..(i - 1) :
          /\ trace[k][1] = "enter"
          /\ ~\E x \in (k + 1)..(i - 1) : trace[x] = <<"exit", trace[k][2]>> } }

\* C21 (as claimed): every pass an accessor runs is run with no timed region
\* open but its own: the passes an accessor needs have run before the
\* accessor enters the timed region of its own pass.
C21_NoPrerequisiteRunsInsideTimedRegion ==
    call.op = "accessor" =>
        \A i \in DOMAIN call.trace :
            call.trace[i][1] = "run" =>
                OpenRegions(call.trace, i) = {call.trace[i][2]}

\* The previous slots of the Database.
PrevSlots == {"prev_nameset", "prev_scopes", "prev_verify"}

\* C22: parse leaves prev_nameset, prev_scopes and prev_verify as they were,
\* each empty as before or holding the same handle with the same content,
\* and leaves the options handle as it was.
C22_ParseLeavesPreviousSlotsAndOptions ==
    [][call'.op = "parse"
          => /\ options' = options
             /\ \A s \in PrevSlots :
                   /\ World(NoPass)'[s] = World(NoPass)[s]
                   /\ heap'[World(NoPass)'[s]] = heap[World(NoPass)[s]]]_vars

\* parse has returned on a Database whose three previous slots hold tables:
\* they still do, while the current slots of the same passes are empty.
C22_Witness ==
    /\ call.op = "parse"
    /\ prev_nameset # NoneH /\ prev_scopes # NoneH /\ prev_verify # NoneH
    /\ nameset = NoneH /\ scopes = NoneH /\ verify = NoneH

\* C23: a handle the caller got from an accessor or from parse_result and
\* kept a clone of denotes, after any later calls of parse and of the
\* accessors, a live allocation with the content it had when it was got.
C23_KeptHandleKeepsItsValue ==
    obs.owned => obs.h # NoneH /\ heap[obs.h] = obs.c

\* The caller keeps the nameset it got before a parse with another input;
\* the Database has since computed another nameset, in another allocation.
C23_Witness ==
    /\ obs.owned
    /\ obs.pass = "nameck"
    /\ obs.st = "changed"
    /\ nameset \notin {NoneH, obs.h}
    /\ heap[nameset] # obs.c
    /\ heap[obs.h] = obs.c

\* The passes that update a table in place, each with its previous slot.
PrevOf(p) ==
    CASE p = "nameck" -> "prev_nameset"
      [] p = "scopeck" -> "prev_scopes"
      [] p = "verify" -> "prev_verify"

\* C24: after every call, for nameck, scopeck and verify, a current slot
\* that is set holds the handle the previous slot holds; and a current slot
\* that was empty before the call and is set after it was set by a call in
\* which the pass ran and updated the table to the end.
C24_CurrentIsPreviousHandle ==
    [][\A p \in {"nameck", "scopeck", "verify"} :
          /\ Current'[p] # NoneH => World(NoPass)'[PrevOf(p)] = Current'[p]
          /\ (Current[p] = NoneH /\ Current'[p] # NoneH)
                => /\ \E i \in DOMAIN call'.trace : call'.trace[i] = <<"run", p>>
                   /\ ~heap'[Current'[p]].torn]_vars

\* verify_result has returned: the three current slots each hold the handle
\* of their previous slot.
C24_Witness ==
    /\ verify # NoneH /\ verify = prev_verify
    /\ scopes # NoneH /\ scopes = prev_scopes
    /\ nameset # NoneH /\ nameset = prev_nameset

\* C25 (as claimed): in every state reached by calls of parse and of the
\* accessors, a current slot that is set has the current slots of the passes
\* it needs set too: scopes needs nameset; verify and grammar need nameset
\* and scopes; stmt_parse needs nameset and grammar.
C25_CurrentImpliesPrerequisitesCurrent ==
    /\ scopes # NoneH => nameset # NoneH
    /\ verify # NoneH => nameset # NoneH /\ scopes # NoneH
    /\ grammar # NoneH => nameset # NoneH /\ scopes # NoneH
    /\ stmt_parse # NoneH => nameset # NoneH /\ grammar # NoneH

\* The workers that took job t from the queue and have not finished it.
Holding(t) ==
    { w \in DOMAIN threads : threads[w].job = t /\ threads[w].pc \in {"job", "body"} }

\* C26: an executor built with jobs = N > 1 has N worker threads at all
\* times, none of which has exited; at most N job closures are running; and
\* each job submitted is in exactly one place: in the queue, or taken by
\* one worker that has not finished it, or run once.
C26_FixedPoolEachJobRunByOneWorker ==
    concurrency > 1 =>
        /\ DOMAIN threads = 1..concurrency
        /\ NoThreadDied
        /\ Cardinality({ w \in DOMAIN threads : threads[w].pc \in {"job", "body"} })
               <= concurrency
        /\ \A t \in Submitted :
              /\ tasks[t].runs <= 1
              /\ Cardinality(Holding(t)) <= 1
              /\ Cardinality(Holding(t)) + tasks[t].runs
                     + (IF t \in queue THEN 1 ELSE 0) = 1
              /\ tasks[t].runs = 1 => tasks[t].by \in DOMAIN threads

\* Each of the two workers of a pool is running the closure of a job of its
\* own, one of them a job that fails.
C26_Witness ==
    /\ concurrency = 2
    /\ Len(tasks) = 2
    /\ tasks[1].fails
    /\ \A w \in DOMAIN threads : threads[w].pc = "body"
    /\ \A t \in Submitted : Cardinality(Holding(t)) = 1

\* C27: while every heading met is deeper than the level of the root, in
\* the tree built so far the level of each node is deeper than the level of
\* its parent, the levels of the children of a node never get deeper from
\* one child to the next, and no call of add_child, the recursive ones
\* included, has failed its assertion.
C27_LevelsDeeperThanParentSiblingsNotDeeper ==
    (\A i \in DOMAIN building.met : building.met[i].level > Database)
        => /\ ~building.panicked
           /\ \A n \in Nodes(building.node) :
                 /\ \A i \in DOMAIN n.children : n.children[i].level > n.level
                 /\ \A i \in 1..(Len(n.children) - 1) :
                       n.children[i + 1].level <= n.children[i].level

\* Headings of levels 2, 3, 1, 3 were met: the root has children of levels
\* 2 and 1, each with a child of level 3 put there by a recursive call.
C27_Witness ==
    /\ [i \in DOMAIN building.met |-> building.met[i].level] = <<2, 3, 1, 3>>
    /\ [i \in DOMAIN building.node.children |-> building.node.children[i].level] = <<2, 1>>
    /\ \A i \in {1, 2} :
          /\ Len(building.node.children[i].children) = 1
          /\ building.node.children[i].children[1].level = 3

====
